---- MODULE Spec2Model ----
(***************************************************************************)
(* A model of pyexcel.sheets.matrix: the Matrix data holder, its geometry  *)
(* helpers (longest_row_number, uniform, transpose) and its public         *)
(* operations, as a state machine over the private fields __array and      *)
(* __width.                                                                *)
(*                                                                         *)
(* Conventions.  A Python list is a TLA+ sequence; Python's 0-based index  *)
(* k is position k + 1 of the sequence.  Python's None is the value None   *)
(* below, the empty-string sentinel is Blank.  Every list handed to an     *)
(* operation is a list object of its own, which the caller does not keep   *)
(* (the matrix exclusively owns its backing store), so a list is modelled  *)
(* by its value.  Indices given to the writing operations are              *)
(* non-negative.  A raised exception is the field err of an operation's    *)
(* outcome; the store an operation leaves behind when it raises is the     *)
(* store as mutated up to the raise.                                       *)
(***************************************************************************)
EXTENDS Integers, Sequences, FiniteSets, TLC

VARIABLES
    array,   \* Matrix.__array: the backing store, a list of rows
    width,   \* Matrix.__width
    pc,      \* the caller's position: "idle" (about to call), "done" (a call returned or
             \* raised) or "changed" (the caller has modified the list it was handed)
    call,    \* the last call made: its name and arguments
    old,     \* __array and __width as they were when the last call (or round trip) started
    err,     \* the exception the last call raised, or "none"
    ret,     \* the value the last call returned
    shared,  \* whether that value is the list object self.__array itself
    it       \* the cell iterator the caller holds, if any: what it has captured,
             \* where it stands and what it has yielded so far

vars == <<array, width, pc, call, old, err, ret, shared, it>>

(***************************************************************************)
(* Bounds of the model.                                                    *)
(***************************************************************************)
MaxRows == 3
MaxCols == 3
MaxCells == 4
MaxData == 2
MaxLines == 2
MaxGridCells == 2
MaxIdxLen == 3
MaxInterleaved == 1

(***************************************************************************)
(* Values.                                                                 *)
(***************************************************************************)
None == "None"
Blank == ""
Cells == {None, Blank, "a"}

Max(S) == CHOOSE x \in S : \A y \in S : y <= x
Min2(a, b) == IF a < b THEN a ELSE b
Max2(a, b) == IF a > b THEN a ELSE b
Rep(v, n) == [i \in 1..n |-> v]
\* Python's seq[k:] for 0 <= k
From(seq, k) == IF k >= Len(seq) THEN <<>> ELSE SubSeq(seq, k + 1, Len(seq))
\* Python's "del seq[k]" for 0 <= k < len(seq)
Del(seq, k) == SubSeq(seq, 1, k) \o SubSeq(seq, k + 2, Len(seq))
\* Python's reversed(seq)
reversed(seq) == [i \in 1..Len(seq) |-> seq[Len(seq) + 1 - i]]
\* itertools.chain(*lists)
RECURSIVE chain(_)
chain(lists) == IF lists = <<>> THEN <<>> ELSE Head(lists) \o chain(Tail(lists))

Matrix(a, w) == [array |-> a, width |-> w]
Ok(m, value) == [m |-> m, err |-> "none", ret |-> value, shared |-> FALSE]
Raise(m, e) == [m |-> m, err |-> e, ret |-> None, shared |-> FALSE]
\* return self.__array: the caller is handed the store itself
OkStore(m) == [m |-> m, err |-> "none", ret |-> m.array, shared |-> TRUE]

(***************************************************************************)
(* Geometry helpers.                                                       *)
(***************************************************************************)
\* a variant of _unique that keeps duplicates (not what the code does)
unique_nodedupe(seq) == seq

\* _unique: the first occurrence of each member, in order
_unique(seq) ==
    LET keep(i) == \A k \in 1..(i - 1) : seq[k] # seq[i]
        F[i \in 0..Len(seq)] ==
            IF i = 0 THEN <<>>
            ELSE IF keep(i) THEN Append(F[i - 1], seq[i]) ELSE F[i - 1]
    IN F[Len(seq)]

\* sorted(seq, reverse=True) of a list of integers
RECURSIVE sorted_reverse(_)
sorted_reverse(seq) ==
    IF seq = <<>> THEN <<>>
    ELSE LET top == Max({seq[i] : i \in 1..Len(seq)})
             at == CHOOSE i \in 1..Len(seq) :
                       seq[i] = top /\ \A k \in 1..(i - 1) : seq[k] # top
         IN <<top>> \o sorted_reverse(Del(seq, at - 1))

longest_row_number(in_array) ==
    IF Len(in_array) > 0
    THEN Max({Len(in_array[i]) : i \in 1..Len(in_array)})
    ELSE 0

\* variant of uniform that leaves null cells as they are (not what the code does)
uniform_keepnull(in_array) ==
    LET w == longest_row_number(in_array)
    IN IF w = 0 THEN Matrix(in_array, 0)
       ELSE Matrix([i \in 1..Len(in_array) |->
                       in_array[i] \o Rep(Blank, w - Len(in_array[i]))],
                   w)

\* uniform returns (width, array); here the pair is the record Matrix(array, width)
uniform(in_array) ==
    LET w == longest_row_number(in_array)
    IN IF w = 0 THEN Matrix(in_array, 0)
       ELSE Matrix([i \in 1..Len(in_array) |->
                       [k \in 1..Len(in_array[i]) |->
                           IF in_array[i][k] = None THEN Blank ELSE in_array[i][k]]
                       \o Rep(Blank, w - Len(in_array[i]))],
                   w)

transpose(in_array) ==
    LET max_length == longest_row_number(in_array)
    IN [i \in 1..max_length |->
           [c \in 1..Len(in_array) |->
               IF i <= Len(in_array[c]) THEN in_array[c][i] ELSE Blank]]

(***************************************************************************)
(* Matrix: dimensions.                                                     *)
(***************************************************************************)
number_of_rows(m) == Len(m.array)
number_of_columns(m) == IF number_of_rows(m) > 0 THEN m.width ELSE 0
row_range(m) == 0..(number_of_rows(m) - 1)
column_range(m) == 0..(number_of_columns(m) - 1)

(***************************************************************************)
(* Arguments whose shape the code inspects.  extend_rows and               *)
(* extend_columns take either a list of lists or one flat list; the        *)
(* argument carries of_lists, which is what compact.is_array_type(arg,     *)
(* list) answers: every member is a list (so the empty list is of_lists).  *)
(* paste's rows=None and rows=[] are both falsy and take the same branch:  *)
(* both are the empty sequence here.                                       *)
(***************************************************************************)
ListOfLists(g) == [is_list |-> TRUE, of_lists |-> TRUE, v |-> g]
FlatList(line) == [is_list |-> TRUE, of_lists |-> FALSE, v |-> line]
\* an argument that is not a list (a number, a string, a tuple)
NotAList == [is_list |-> FALSE, of_lists |-> FALSE, v |-> <<>>]
\* isinstance(arg, list)
isinstance_list(arg) == arg.is_list
is_array_type(arg) == arg.of_lists
Truthy(list) == Len(list) > 0

(***************************************************************************)
(* Matrix: structural edits that do not go through cell_value.             *)
(***************************************************************************)
\* _extend_row appends a deep copy of row
_extend_row(m, row) == Matrix(Append(m.array, row), m.width)

RECURSIVE extend_each(_, _)
extend_each(m, rows) ==
    IF rows = <<>> THEN m
    ELSE extend_each(_extend_row(m, Head(rows)), Tail(rows))

extend_rows(m, rows) ==
    IF isinstance_list(rows)
    THEN LET m1 == IF is_array_type(rows)
                   THEN extend_each(m, rows.v)
                   ELSE _extend_row(m, rows.v)
         IN Ok(uniform(m1.array), None)
    ELSE Raise(m, "TypeError")

RECURSIVE delete_rows_loop(_, _)
delete_rows_loop(m, sorted_list) ==
    IF sorted_list = <<>> THEN m
    ELSE LET i == Head(sorted_list)
             m1 == IF i < number_of_rows(m)
                   THEN Matrix(Del(m.array, i), m.width)
                   ELSE m
         IN delete_rows_loop(m1, Tail(sorted_list))

delete_rows(m, row_indices) ==
    IF ~isinstance_list(row_indices) THEN Raise(m, "IndexError")
    ELSE IF Len(row_indices.v) > 0
    THEN Ok(delete_rows_loop(m, sorted_reverse(_unique(row_indices.v))), None)
    ELSE Ok(m, None)

\* the inner loop of delete_columns over one row; the bound j < number_of_columns()
\* reads __width, which the loops leave alone
RECURSIVE delete_cells(_, _, _)
delete_cells(row, sorted_list, ncolumns) ==
    IF sorted_list = <<>> THEN row
    ELSE LET j == Head(sorted_list)
         IN delete_cells(IF j < ncolumns THEN Del(row, j) ELSE row,
                         Tail(sorted_list), ncolumns)

\* a variant of delete_columns that deletes from the first row only (not what the
\* code does)
delete_columns_firstrow(m, column_indices) ==
    IF ~isinstance_list(column_indices) THEN Raise(m, "TypeError")
    ELSE IF Len(column_indices.v) > 0
    THEN LET sorted_list == sorted_reverse(_unique(column_indices.v))
             a == [i \in 1..Len(m.array) |->
                      IF i = 1
                      THEN delete_cells(m.array[i], sorted_list, number_of_columns(m))
                      ELSE m.array[i]]
         IN Ok(Matrix(a, longest_row_number(a)), None)
    ELSE Ok(m, None)

delete_columns(m, column_indices) ==
    IF ~isinstance_list(column_indices) THEN Raise(m, "TypeError")
    ELSE IF Len(column_indices.v) > 0
    THEN LET sorted_list == sorted_reverse(_unique(column_indices.v))
             a == [i \in 1..Len(m.array) |->
                      delete_cells(m.array[i], sorted_list, number_of_columns(m))]
         IN Ok(Matrix(a, longest_row_number(a)), None)
    ELSE Ok(m, None)

_extend_columns_with_rows(m, rows) ==
    LET current_nrows == number_of_rows(m)
        current_ncols == number_of_columns(m)
        insert_column_nrows == Len(rows)
        array_length == Min2(current_nrows, insert_column_nrows)
        merged == [i \in 1..current_nrows |->
                      IF i <= array_length THEN m.array[i] \o rows[i] ELSE m.array[i]]
        delta == insert_column_nrows - current_nrows
        surplus == IF current_nrows < insert_column_nrows
                   THEN [i \in 1..delta |->
                            Rep(Blank, current_ncols) \o rows[current_nrows + i]]
                   ELSE <<>>
    IN Ok(uniform(merged \o surplus), None)

extend_columns(m, columns) ==
    IF ~isinstance_list(columns) THEN Raise(m, "TypeError")
    ELSE LET incoming_data == IF is_array_type(columns) THEN columns.v ELSE <<columns.v>>
         IN _extend_columns_with_rows(m, transpose(incoming_data))

extend_columns_with_rows(m, rows) == _extend_columns_with_rows(m, rows)

matrix_transpose(m) == Ok(uniform(transpose(m.array)), None)

(***************************************************************************)
(* Matrix: cell_value and the operations that call it or are called by it. *)
(***************************************************************************)
RECURSIVE cell_value(_, _, _, _)
RECURSIVE paste(_, _, _, _)
RECURSIVE _set_row_at(_, _, _, _)
RECURSIVE set_row_cells(_, _, _, _, _, _)
RECURSIVE set_column_at(_, _, _, _)
RECURSIVE set_column_cells(_, _, _, _, _, _)
RECURSIVE paste_rows_loop(_, _, _, _, _, _)
RECURSIVE paste_columns_loop(_, _, _, _, _, _)

\* new_value = None is the call without a new value: a read
cell_value(m, row, column, new_value) ==
    IF row \in row_range(m) /\ column \in column_range(m)
    THEN IF new_value = None
         THEN Ok(m, m.array[row + 1][column + 1])
         ELSE Ok(Matrix([m.array EXCEPT ![row + 1][column + 1] = new_value], m.width),
                 None)
    ELSE IF new_value = None
         THEN Raise(m, "IndexError")
         ELSE paste(m, <<row, column>>, <<<<new_value>>>>, <<>>)

\* the loop "for i in range(starting, to)" of _set_row_at
set_row_cells(m, row_index, data_array, starting, i, to) ==
    IF i >= to THEN Ok(m, None)
    ELSE LET r == cell_value(m, row_index, i, data_array[i - starting + 1])
         IN IF r.err # "none" THEN r
            ELSE set_row_cells(r.m, row_index, data_array, starting, i + 1, to)

_set_row_at(m, row_index, data_array, starting) ==
    LET nrows == number_of_rows(m)
        ncolumns == number_of_columns(m)
    IN IF row_index < nrows /\ starting < ncolumns
       THEN LET real_len == Len(data_array) + starting
                to == Min2(real_len, ncolumns)
                r == set_row_cells(m, row_index, data_array, starting, starting, to)
                left == ncolumns - starting
                a == IF real_len > ncolumns
                     THEN [r.m.array EXCEPT ![row_index + 1] = @ \o From(data_array, left)]
                     ELSE r.m.array
            IN IF r.err # "none" THEN r ELSE Ok(uniform(a), None)
       ELSE Raise(m, "IndexError")

\* the loop "for i in range(starting, to)" of set_column_at
set_column_cells(m, column_index, data_array, starting, i, to) ==
    IF i >= to THEN Ok(m, None)
    ELSE LET r == cell_value(m, i, column_index, data_array[i - starting + 1])
         IN IF r.err # "none" THEN r
            ELSE set_column_cells(r.m, column_index, data_array, starting, i + 1, to)

set_column_at(m, column_index, data_array, starting) ==
    LET nrows == number_of_rows(m)
        ncolumns == number_of_columns(m)
    IN IF column_index < ncolumns /\ starting < nrows
       THEN LET real_len == Len(data_array) + starting
                to == Min2(real_len, nrows)
                r == set_column_cells(m, column_index, data_array, starting, starting, to)
                new_rows == IF real_len > nrows
                            THEN [k \in 1..(real_len - nrows) |->
                                     Rep(Blank, column_index)
                                     \o <<data_array[nrows + k - 1 - starting + 1]>>]
                            ELSE <<>>
            IN IF r.err # "none" THEN r ELSE Ok(uniform(r.m.array \o new_rows), None)
       ELSE Raise(m, "IndexError")

\* the loop "for index, row in enumerate(rows)" of paste; k = index + 1
paste_rows_loop(m, rows, k, starting_row, nrows, starting) ==
    IF k > Len(rows) THEN Ok(m, None)
    ELSE LET set_index == starting_row + (k - 1)
             r == IF set_index < nrows
                  THEN _set_row_at(m, set_index, rows[k], starting)
                  ELSE Ok(_extend_row(m, Rep(Blank, starting) \o rows[k]), None)
         IN IF r.err # "none" THEN r
            ELSE paste_rows_loop(r.m, rows, k + 1, starting_row, nrows, starting)

\* the loop "for index, column in enumerate(columns)" of paste; k = index + 1
paste_columns_loop(m, columns, k, starting_column, ncolumns, starting) ==
    IF k > Len(columns) THEN Ok(m, None)
    ELSE LET set_index == starting_column + (k - 1)
             r == IF set_index < ncolumns
                  THEN set_column_at(m, set_index, columns[k], starting)
                  ELSE extend_columns(m, ListOfLists(<<Rep(Blank, starting) \o columns[k]>>))
         IN IF r.err # "none" THEN r
            ELSE paste_columns_loop(r.m, columns, k + 1, starting_column, ncolumns, starting)

\* a variant of paste that returns normally when given neither rows nor columns
\* (not what the code does)
paste_silent(m, topleft_corner, rows, columns) ==
    IF Truthy(rows)
    THEN LET starting_row == topleft_corner[1]
             nrows == number_of_rows(m)
             ncolumns == number_of_columns(m)
             m1 == IF starting_row > nrows
                   THEN extend_each(m, Rep(Rep(Blank, ncolumns), starting_row - nrows))
                   ELSE m
             r == paste_rows_loop(m1, rows, 1, starting_row, number_of_rows(m1),
                                  topleft_corner[2])
         IN IF r.err # "none" THEN r ELSE Ok(uniform(r.m.array), None)
    ELSE IF Truthy(columns)
    THEN LET starting_column == topleft_corner[2]
             r == paste_columns_loop(m, columns, 1, starting_column,
                                     number_of_columns(m), topleft_corner[1])
         IN IF r.err # "none" THEN r ELSE Ok(uniform(r.m.array), None)
    ELSE Ok(m, None)

paste(m, topleft_corner, rows, columns) ==
    IF Truthy(rows)
    THEN LET starting_row == topleft_corner[1]
             nrows == number_of_rows(m)
             ncolumns == number_of_columns(m)
             m1 == IF starting_row > nrows
                   THEN extend_each(m, Rep(Rep(Blank, ncolumns), starting_row - nrows))
                   ELSE m
             r == paste_rows_loop(m1, rows, 1, starting_row, number_of_rows(m1),
                                  topleft_corner[2])
         IN IF r.err # "none" THEN r ELSE Ok(uniform(r.m.array), None)
    ELSE IF Truthy(columns)
    THEN LET starting_column == topleft_corner[2]
             r == paste_columns_loop(m, columns, 1, starting_column,
                                     number_of_columns(m), topleft_corner[1])
         IN IF r.err # "none" THEN r ELSE Ok(uniform(r.m.array), None)
    ELSE Raise(m, "ValueError")

(***************************************************************************)
(* Matrix: reads.                                                          *)
(***************************************************************************)
get_internal_array(m) == OkStore(m)

\* a variant of to_array that hands out a copy of the store (not what the code does)
to_array_copy(m) == Ok(m, m.array)

to_array(m) == OkStore(m)

\* copy.deepcopy(row): a list of its own with the same cells
deepcopy(row) == row

row_at(m, index) ==
    IF index \in row_range(m)
    THEN Ok(m, deepcopy(m.array[index + 1]))
    ELSE Raise(m, "IndexError")

\* a variant of column_at that returns an empty list for an index out of range
\* (not what the code does)
column_at_lenient(m, index) ==
    IF index \in column_range(m)
    THEN Ok(m, [i \in 1..number_of_rows(m) |-> cell_value(m, i - 1, index, None).ret])
    ELSE Ok(m, <<>>)

column_at(m, index) ==
    IF index \in column_range(m)
    THEN Ok(m, [i \in 1..number_of_rows(m) |-> cell_value(m, i - 1, index, None).ret])
    ELSE Raise(m, "IndexError")

set_row_at(m, row_index, data_array) ==
    LET nrows == number_of_rows(m)
    IN IF row_index < nrows
       THEN LET a == [m.array EXCEPT ![row_index + 1] = data_array]
            IN IF Len(data_array) # number_of_columns(m)
               THEN Ok(uniform(a), None)
               ELSE Ok(Matrix(a, m.width), None)
       ELSE Raise(m, "IndexError")

\* the keys of m[key] = c: a tuple (row, column), a string that names a cell
\* ('A1' for row 0, column 0), or an integer
TupleKey(row, column) == [is_tuple |-> TRUE, is_str |-> FALSE, v |-> <<row, column>>]
StrKey(row, column) == [is_tuple |-> FALSE, is_str |-> TRUE, v |-> <<row, column>>]
IntKey(k) == [is_tuple |-> FALSE, is_str |-> FALSE, v |-> <<k>>]

\* _shared.excel_cell_position(aset), a module outside these sources: the row
\* and the column that the string names
excel_cell_position(aset) == aset.v

__setitem__(m, aset, c) ==
    IF aset.is_tuple
    THEN cell_value(m, aset.v[1], aset.v[2], c)
    ELSE IF aset.is_str
    THEN LET position == excel_cell_position(aset)
         IN cell_value(m, position[1], position[2], c)
    ELSE Raise(m, "IndexError")

\* region reads every cell of the span with cell_value, which raises at the first
\* cell outside the matrix; nothing is written, so the order of the reads is not kept
region(m, topleft_corner, bottomright_corner) ==
    LET rs == topleft_corner[1]..(bottomright_corner[1] - 1)
        cs == topleft_corner[2]..(bottomright_corner[2] - 1)
        nr == IF bottomright_corner[1] > topleft_corner[1]
              THEN bottomright_corner[1] - topleft_corner[1] ELSE 0
        nc == IF bottomright_corner[2] > topleft_corner[2]
              THEN bottomright_corner[2] - topleft_corner[2] ELSE 0
    IN IF \A row \in rs, column \in cs : cell_value(m, row, column, None).err = "none"
       THEN Ok(m, [i \in 1..nr |-> [j \in 1..nc |->
                     cell_value(m, topleft_corner[1] + i - 1,
                                topleft_corner[2] + j - 1, None).ret]])
       ELSE Raise(m, "IndexError")

\* the loops of cut, over the cells of the span in row-major order; cells = the
\* remaining <<row, column>> pairs
RECURSIVE cut_cells(_, _)
cut_cells(m, cells) ==
    IF cells = <<>> THEN Ok(m, None)
    ELSE LET r == cell_value(m, Head(cells)[1], Head(cells)[2], Blank)
         IN IF r.err # "none" THEN r ELSE cut_cells(r.m, Tail(cells))

\* the <<row, column>> pairs of range(r1, r2) x range(c1, c2), row-major
span(r1, r2, c1, c2) ==
    LET nr == IF r2 > r1 THEN r2 - r1 ELSE 0
        nc == IF c2 > c1 THEN c2 - c1 ELSE 0
    IN [k \in 1..(nr * nc) |-> <<r1 + ((k - 1) \div nc), c1 + ((k - 1) % nc)>>]

cut(m, topleft_corner, bottomright_corner) ==
    LET got == region(m, topleft_corner, bottomright_corner)
        r == cut_cells(m, span(topleft_corner[1], bottomright_corner[1],
                               topleft_corner[2], bottomright_corner[2]))
    IN IF got.err # "none" THEN got
       ELSE IF r.err # "none" THEN r
       ELSE Ok(r.m, got.ret)

(***************************************************************************)
(* Matrix: filter and map.                                                 *)
(***************************************************************************)
Given(list) == [given |-> TRUE, v |-> list]
NotGiven == [given |-> FALSE, v |-> <<>>]

filter(m, column_indices, row_indices) ==
    LET r1 == IF row_indices.given
              THEN delete_rows(m, FlatList(row_indices.v))
              ELSE Ok(m, None)
        r2 == IF column_indices.given
              THEN delete_columns(r1.m, FlatList(column_indices.v))
              ELSE Ok(r1.m, None)
    IN IF r1.err # "none" THEN r1 ELSE r2

\* the loops of map over the cells in row-major order
RECURSIVE map_cells(_, _, _)
map_cells(m, cells, custom_function) ==
    IF cells = <<>> THEN Ok(m, None)
    ELSE LET row == Head(cells)[1]
             column == Head(cells)[2]
             got == cell_value(m, row, column, None)
             put == cell_value(m, row, column, custom_function[got.ret])
         IN IF got.err # "none" THEN got
            ELSE IF put.err # "none" THEN put
            ELSE map_cells(put.m, Tail(cells), custom_function)

map(m, custom_function) ==
    map_cells(m, span(0, number_of_rows(m), 0, number_of_columns(m)), custom_function)

\* formatters.to_format(formatter, value), a module outside these sources: the
\* empty string passes through, the formatter is applied to every other value
to_format(formatter, value) == IF value = Blank THEN value ELSE formatter[value]

\* partial(to_format, formatter)
partial_to_format(formatter) == [value \in Cells |-> to_format(formatter, value)]

format(m, formatter) == map(m, partial_to_format(formatter))

(***************************************************************************)
(* Matrix: the cell iterators.  enumerate and vertical return an            *)
(* itertools.chain, reverse and rvertical are generator functions.  Each is *)
(* a record that says what the iterator holds and where it stands; the      *)
(* cells are read when the caller asks for the next one.                    *)
(***************************************************************************)
\* compact.czip(*lists): zip stops at the shortest list; zip() of nothing is empty
czip(lists) ==
    LET n == IF Len(lists) = 0 THEN 0
             ELSE -Max({-Len(lists[i]) : i \in 1..Len(lists)})
    IN [k \in 1..n |-> [i \in 1..Len(lists) |-> lists[i][k]]]

\* a reference to a row object: the list that is row k of the store (k from 1),
\* or a list the store no longer holds, with the cells it was left with
RowRef(k) == [live |-> TRUE, k |-> k, cells |-> <<>>]
Frozen(cells) == [live |-> FALSE, k |-> 0, cells |-> cells]
Deref(ref, a) == IF ref.live THEN a[ref.k] ELSE ref.cells

StopIteration == "StopIteration"

NoIter ==
    [kind |-> "none", phase |-> "none", rows |-> <<>>, idx |-> <<>>,
     list_live |-> FALSE, outer |-> 0, cur |-> Frozen(<<>>), inner |-> 0,
     buf |-> <<>>, yielded |-> <<>>, touched |-> FALSE, calls |-> 0]

\* chain(*self.__array): the row objects are taken at the call, their cells are
\* read later; outer is the row the chain stands in, inner the next index in it
enumerate(m) ==
    Ok(m, [NoIter EXCEPT !.kind = "enumerate", !.phase = "running",
                         !.rows = [k \in 1..Len(m.array) |-> RowRef(k)],
                         !.outer = 1, !.inner = 0])

\* a generator function: the call runs none of the body
reverse(m) == Ok(m, [NoIter EXCEPT !.kind = "reverse", !.phase = "created"])

\* chain(*tuples): the tuples were built at the call, buf is what is left of them
chain_tuples(m, tuples) ==
    Ok(m, [NoIter EXCEPT !.kind = "vertical", !.phase = "running", !.buf = chain(tuples)])

\* a variant of vertical that goes row by row (not what the code does)
vertical_rowmajor(m) == chain_tuples(m, m.array)

\* chain(*compact.czip(*self.__array)): the star unpacks the zip at the call
vertical(m) == chain_tuples(m, czip(m.array))

\* a generator function: the call runs none of the body
rvertical(m) == Ok(m, [NoIter EXCEPT !.kind = "rvertical", !.phase = "created"])

Yield(i, cell) == [it |-> i, out |-> cell]
Stop(i) == [it |-> i, out |-> StopIteration]

\* next() on the chain of enumerate: a list iterator yields while its index is
\* below the present length of its row; then the chain goes to the next row
RECURSIVE enumerate_next(_, _)
enumerate_next(i, a) ==
    IF i.outer > Len(i.rows) THEN Stop(i)
    ELSE LET row == Deref(i.rows[i.outer], a)
         IN IF i.inner < Len(row)
            THEN Yield([i EXCEPT !.inner = @ + 1], row[i.inner + 1])
            ELSE enumerate_next([i EXCEPT !.outer = @ + 1, !.inner = 0], a)

\* next() on the chain of vertical
vertical_next(i) ==
    IF i.buf = <<>> THEN Stop(i)
    ELSE Yield([i EXCEPT !.buf = Tail(@)], Head(i.buf))

\* the rows of the list that reversed(self.__array) walks: the store itself, or
\* the list the store was before transpose replaced it
OuterList(i, a) == IF i.list_live THEN [k \in 1..Len(a) |-> RowRef(k)] ELSE i.rows

\* the generator of reverse: "for row in reversed(self.__array)" (reverse_rows)
\* and "for cell in reversed(row): yield cell" (reverse_cells).  A reversed list
\* iterator yields while its index is at least 0 and below the present length.
RECURSIVE reverse_rows(_, _)
RECURSIVE reverse_cells(_, _)
reverse_rows(i, a) ==
    LET list == OuterList(i, a)
    IN IF i.outer >= 0 /\ i.outer < Len(list)
       THEN LET row == list[i.outer + 1]
            IN reverse_cells([i EXCEPT !.cur = row, !.outer = @ - 1,
                                       !.inner = Len(Deref(row, a)) - 1], a)
       ELSE Stop([i EXCEPT !.outer = -1])

reverse_cells(i, a) ==
    LET row == Deref(i.cur, a)
    IN IF i.inner >= 0 /\ i.inner < Len(row)
       THEN Yield([i EXCEPT !.inner = @ - 1], row[i.inner + 1])
       ELSE reverse_rows(i, a)

reverse_next(i, a) ==
    IF i.phase = "created"
    THEN reverse_rows([i EXCEPT !.phase = "running", !.list_live = TRUE,
                                !.outer = Len(a) - 1], a)
    ELSE reverse_cells(i, a)

\* next() on czip(*(reversed(row) for row in self.__array)): one cell from each
\* reversed row iterator in turn; the first that is exhausted ends the zip
zip_next(i, a) ==
    LET n == Len(i.rows)
        ok(k) == i.idx[k] >= 0 /\ i.idx[k] < Len(Deref(i.rows[k], a))
        bad == {k \in 1..n : ~ok(k)}
    IN IF n = 0 THEN Stop(i)
       ELSE IF bad = {}
       THEN LET column == [k \in 1..n |-> Deref(i.rows[k], a)[i.idx[k] + 1]]
                cells == reversed(column)
            IN Yield([i EXCEPT !.idx = [k \in 1..n |-> i.idx[k] - 1],
                               !.buf = Tail(cells)],
                     Head(cells))
       ELSE LET first == -Max({-k : k \in bad})
            IN Stop([i EXCEPT !.idx = [k \in 1..n |->
                                          IF k < first THEN i.idx[k] - 1
                                          ELSE IF k = first THEN -1
                                          ELSE i.idx[k]]])

\* the generator of rvertical: "for column in czip(...)" and
\* "for cell in reversed(column): yield cell"; buf is what is left of the column
rvertical_body(i, a) ==
    IF i.buf # <<>> THEN Yield([i EXCEPT !.buf = Tail(@)], Head(i.buf))
    ELSE zip_next(i, a)

rvertical_next(i, a) ==
    IF i.phase = "created"
    THEN rvertical_body([i EXCEPT !.phase = "running",
                                  !.rows = [k \in 1..Len(a) |-> RowRef(k)],
                                  !.idx = [k \in 1..Len(a) |-> Len(a[k]) - 1]], a)
    ELSE rvertical_body(i, a)

\* next(iterator) on the store a
iter_next(i, a) ==
    CASE i.kind = "enumerate" -> enumerate_next(i, a)
      [] i.kind = "reverse" -> reverse_next(i, a)
      [] i.kind = "vertical" -> vertical_next(i)
      [] i.kind = "rvertical" -> rvertical_next(i, a)

\* What a call does to the row objects of the store m it starts on: for each
\* row, its index afterwards, or 0 when the store no longer holds that list.
\* set_row_at puts the data in place of the row, delete_rows removes lists from
\* the store, transpose builds new lists; the other calls modelled while an
\* iterator is held write into the lists or append to the store.
RowFate(c, m) ==
    LET n == Len(m.array)
        dropped == {c.indices[j] : j \in 1..Len(c.indices)}
    IN CASE c.op = "set_row_at" ->
                [k \in 1..n |-> IF k = c.pos[1] + 1 THEN 0 ELSE k]
         [] c.op = "delete_rows" /\ c.is_list ->
                [k \in 1..n |-> IF (k - 1) \in dropped THEN 0
                                ELSE k - Cardinality({j \in dropped : j < k - 1})]
         [] c.op \in {"transpose", "transpose_back"} -> [k \in 1..n |-> 0]
         [] OTHER -> [k \in 1..n |-> k]

\* self.__array = transpose(self.__array): the store is a new list object
StoreReplaced(c) == c.op \in {"transpose", "transpose_back"}

MoveRef(ref, fate, m) ==
    IF ~ref.live THEN ref
    ELSE IF fate[ref.k] = 0 THEN Frozen(m.array[ref.k])
    ELSE RowRef(fate[ref.k])

\* the iterator after the call c has taken the matrix from m to m2
Carry(i, c, m, m2) ==
    IF i.kind = "none" THEN i
    ELSE LET fate == RowFate(c, m)
         IN [i EXCEPT
                !.rows = IF i.list_live /\ StoreReplaced(c)
                         THEN [k \in 1..Len(m.array) |-> Frozen(m.array[k])]
                         ELSE [k \in 1..Len(i.rows) |-> MoveRef(i.rows[k], fate, m)],
                !.list_live = i.list_live /\ ~StoreReplaced(c),
                !.cur = MoveRef(i.cur, fate, m),
                !.touched = i.touched \/ m2 # m,
                !.calls = i.calls + 1]

(***************************************************************************)
(* Matrix: the entry points of the removed filter and formatter features.  *)
(* The filter or formatter handed in is not looked at.                     *)
(***************************************************************************)
\* a variant of add_filter that returns normally (not what the code does)
add_filter_silent(m, afilter) == Ok(m, None)

add_filter(m, afilter) == Raise(m, "NotImplementedError")
remove_filter(m, afilter) == Raise(m, "NotImplementedError")
clear_filters(m) == Raise(m, "NotImplementedError")
validate_filters(m) == Raise(m, "NotImplementedError")
freeze_filters(m) == Raise(m, "NotImplementedError")
apply_formatter(m, aformatter) == Raise(m, "NotImplementedError")
add_formatter(m, aformatter) == Raise(m, "NotImplementedError")
remove_formatter(m, aformatter) == Raise(m, "NotImplementedError")
clear_formatters(m) == Raise(m, "NotImplementedError")
freeze_formatters(m) == Raise(m, "NotImplementedError")

RemovedFeatures ==
    {"add_filter", "remove_filter", "clear_filters", "validate_filters",
     "freeze_filters", "apply_formatter", "add_formatter", "remove_formatter",
     "clear_formatters", "freeze_formatters"}

\* the call of the removed entry point of that name; the argument, where the
\* method takes one, is any object
removed_feature(m, name) ==
    CASE name = "add_filter" -> add_filter(m, None)
      [] name = "remove_filter" -> remove_filter(m, None)
      [] name = "clear_filters" -> clear_filters(m)
      [] name = "validate_filters" -> validate_filters(m)
      [] name = "freeze_filters" -> freeze_filters(m)
      [] name = "apply_formatter" -> apply_formatter(m, None)
      [] name = "add_formatter" -> add_formatter(m, None)
      [] name = "remove_formatter" -> remove_formatter(m, None)
      [] name = "clear_formatters" -> clear_formatters(m)
      [] name = "freeze_formatters" -> freeze_formatters(m)

(***************************************************************************)
(* The arguments the caller draws from.                                    *)
(***************************************************************************)
\* flat lists of cells
Lines == UNION {[1..n -> Cells] : n \in 0..MaxData}
\* jagged lists of lists of cells: the lengths of the lines, then the cells
RECURSIVE SumSeq(_)
SumSeq(s) == IF s = <<>> THEN 0 ELSE Head(s) + SumSeq(Tail(s))
Shapes ==
    {s \in UNION {[1..k -> 0..MaxData] : k \in 1..MaxLines} : SumSeq(s) <= MaxGridCells}
RECURSIVE GridsOfShape(_)
GridsOfShape(s) ==
    IF s = <<>> THEN {<<>>}
    ELSE {<<l>> \o g : l \in [1..Head(s) -> Cells], g \in GridsOfShape(Tail(s))}
Grids == UNION {GridsOfShape(s) : s \in Shapes}
SmallGrids == {<<<<v>>>> : v \in Cells}
\* lists of indices: those of a dimension of size n, and n itself, which is out of range
IndexLists(n) == UNION {[1..k -> 0..n] : k \in 0..MaxIdxLen}
ShortIndexLists(n) == {l \in IndexLists(n) : Len(l) <= 1}
\* an index to write at: in range, at the edge, or one past the edge
WriteIdx(n) == 0..(n + 1)
\* an index to read at: negative, in range, or out of range
ReadIdx(n) == (-1)..n
Functions == [Cells -> Cells]

\* the growth of the store is capped
Fits(m) ==
    /\ Len(m.array) <= MaxRows
    /\ \A i \in 1..Len(m.array) : Len(m.array[i]) <= MaxCols
    /\ Len(chain(m.array)) <= MaxCells

NoCall ==
    [op |-> "none", pos |-> <<>>, value |-> None, data |-> <<>>, rows |-> <<>>,
     columns |-> <<>>, indices |-> <<>>, column_indices |-> NotGiven,
     row_indices |-> NotGiven, fn |-> <<>>, is_list |-> TRUE]

M == Matrix(array, width)
NRows == number_of_rows(M)
NCols == number_of_columns(M)

(***************************************************************************)
(* The state machine: the caller constructs a Matrix, then makes one call  *)
(* after another.                                                          *)
(***************************************************************************)
\* Matrix.__init__: self.__width, self.__array = uniform(list(array))
Init ==
    \E input \in Grids \cup {<<>>} :
        /\ Fits(uniform(input))
        /\ array = uniform(input).array
        /\ width = uniform(input).width
        /\ pc = "done"
        /\ call = [NoCall EXCEPT !.op = "__init__", !.rows = input]
        /\ old = Matrix(<<>>, 0)
        /\ err = "none"
        /\ ret = None
        /\ shared = FALSE
        /\ it = NoIter

\* the calls that hand the caller a cell iterator
ReturnsIterator == {"enumerate", "reverse", "vertical", "rvertical"}

\* The calls the caller makes while it holds an iterator that is not yet
\* exhausted: at most MaxInterleaved of them, each a write of one cell, a new
\* row of at most one cell, the deletion of one row or column, an extension
\* by one cell or a transpose.
Interleaved(c) ==
    \/ c.op \in {"cell_value", "__setitem__"} /\ c.value # None /\ c.is_list
    \/ c.op = "set_row_at" /\ Len(c.data) <= 1
    \/ c.op \in {"delete_rows", "delete_columns"} /\ c.is_list /\ Len(c.indices) = 1
    \/ /\ c.op \in {"extend_rows", "extend_columns"}
       /\ c.is_list
       /\ Len(chain(c.rows)) + Len(chain(c.columns)) + Len(c.data) = 1
    \/ c.op = "transpose"

MayCall(c) ==
    \/ it.kind = "none"
    \/ it.phase # "exhausted" /\ it.calls < MaxInterleaved /\ Interleaved(c)

\* a call c with outcome res; every action below makes its call from the idle caller
Step(c, res) ==
    /\ MayCall(c)
    /\ \E outcome \in {res} :
        /\ Fits(outcome.m)
        /\ it' = IF c.op \in ReturnsIterator THEN outcome.ret
                 ELSE Carry(it, c, M, outcome.m)
        /\ array' = outcome.m.array
        /\ width' = outcome.m.width
        /\ pc' = "done"
        /\ call' = c
        /\ old' = M
        /\ err' = outcome.err
        /\ ret' = outcome.ret
        /\ shared' = outcome.shared

\* the second call of a round trip: old stays the state before the first call
StepBack(c, res) ==
    /\ MayCall(c)
    /\ \E outcome \in {res} :
        /\ Fits(outcome.m)
        /\ it' = Carry(it, c, M, outcome.m)
        /\ array' = outcome.m.array
        /\ width' = outcome.m.width
        /\ pc' = "done"
        /\ call' = c
        /\ old' = old
        /\ err' = outcome.err
        /\ ret' = outcome.ret
        /\ shared' = outcome.shared

Return ==
    /\ pc \in {"done", "changed"}
    /\ pc' = "idle"
    /\ call' = NoCall
    /\ old' = Matrix(<<>>, 0)
    /\ err' = "none"
    /\ ret' = None
    /\ shared' = FALSE
    /\ UNCHANGED <<array, width, it>>

CellValueGet ==
    /\ pc = "idle"
    /\ \E row \in ReadIdx(NRows), column \in ReadIdx(NCols) :
           Step([NoCall EXCEPT !.op = "cell_value", !.pos = <<row, column>>],
                cell_value(M, row, column, None))

CellValueSet ==
    /\ pc = "idle"
    /\ \E row \in WriteIdx(NRows), column \in WriteIdx(NCols), new_value \in Cells \ {None} :
           Step([NoCall EXCEPT !.op = "cell_value", !.pos = <<row, column>>,
                               !.value = new_value],
                cell_value(M, row, column, new_value))

\* m[row, column] = c, m['A1'] = c, and m[k] = c with a key that is neither a
\* tuple nor a string
SetItem ==
    /\ pc = "idle"
    /\ \/ \E row \in WriteIdx(NRows), column \in WriteIdx(NCols), c \in Cells :
              Step([NoCall EXCEPT !.op = "__setitem__", !.pos = <<row, column>>,
                                  !.value = c],
                   __setitem__(M, TupleKey(row, column), c))
       \/ \E row \in WriteIdx(NRows), column \in WriteIdx(NCols), c \in Cells :
              Step([NoCall EXCEPT !.op = "__setitem__", !.pos = <<row, column>>,
                                  !.value = c],
                   __setitem__(M, StrKey(row, column), c))
       \/ \E k \in WriteIdx(NRows), c \in Cells \ {None} :
              Step([NoCall EXCEPT !.op = "__setitem__", !.pos = <<k>>, !.value = c,
                                  !.is_list = FALSE],
                   __setitem__(M, IntKey(k), c))

RowAt ==
    /\ pc = "idle"
    /\ \E index \in ReadIdx(NRows) :
           Step([NoCall EXCEPT !.op = "row_at", !.pos = <<index>>], row_at(M, index))

ColumnAt ==
    /\ pc = "idle"
    /\ \E index \in ReadIdx(NCols) :
           Step([NoCall EXCEPT !.op = "column_at", !.pos = <<index>>], column_at(M, index))

SetRowAt ==
    /\ pc = "idle"
    /\ \E row_index \in WriteIdx(NRows), data_array \in Lines :
           Step([NoCall EXCEPT !.op = "set_row_at", !.pos = <<row_index>>,
                               !.data = data_array],
                set_row_at(M, row_index, data_array))

SetColumnAt ==
    /\ pc = "idle"
    /\ \E column_index \in WriteIdx(NCols), data_array \in Lines, starting \in WriteIdx(NRows) :
           Step([NoCall EXCEPT !.op = "set_column_at", !.pos = <<column_index, starting>>,
                               !.data = data_array],
                set_column_at(M, column_index, data_array, starting))

ExtendRows ==
    /\ pc = "idle"
    /\ \/ \E rows \in Grids \cup {<<>>} :
              Step([NoCall EXCEPT !.op = "extend_rows", !.rows = rows],
                   extend_rows(M, ListOfLists(rows)))
       \/ \E row \in Lines \ {<<>>} :
              Step([NoCall EXCEPT !.op = "extend_rows", !.data = row],
                   extend_rows(M, FlatList(row)))
       \/ Step([NoCall EXCEPT !.op = "extend_rows", !.is_list = FALSE],
               extend_rows(M, NotAList))

ExtendColumns ==
    /\ pc = "idle"
    /\ \/ \E columns \in Grids \cup {<<>>} :
              Step([NoCall EXCEPT !.op = "extend_columns", !.columns = columns],
                   extend_columns(M, ListOfLists(columns)))
       \/ \E column \in Lines \ {<<>>} :
              Step([NoCall EXCEPT !.op = "extend_columns", !.data = column],
                   extend_columns(M, FlatList(column)))
       \/ Step([NoCall EXCEPT !.op = "extend_columns", !.is_list = FALSE],
               extend_columns(M, NotAList))

ExtendColumnsWithRows ==
    /\ pc = "idle"
    /\ \E rows \in Grids \cup {<<>>} :
           Step([NoCall EXCEPT !.op = "extend_columns_with_rows", !.rows = rows],
                extend_columns_with_rows(M, rows))

DeleteRows ==
    /\ pc = "idle"
    /\ \/ \E row_indices \in IndexLists(NRows) :
              Step([NoCall EXCEPT !.op = "delete_rows", !.indices = row_indices],
                   delete_rows(M, FlatList(row_indices)))
       \/ Step([NoCall EXCEPT !.op = "delete_rows", !.is_list = FALSE],
               delete_rows(M, NotAList))

DeleteColumns ==
    /\ pc = "idle"
    /\ \/ \E column_indices \in IndexLists(NCols) :
              Step([NoCall EXCEPT !.op = "delete_columns", !.indices = column_indices],
                   delete_columns(M, FlatList(column_indices)))
       \/ Step([NoCall EXCEPT !.op = "delete_columns", !.is_list = FALSE],
               delete_columns(M, NotAList))

Region ==
    /\ pc = "idle"
    /\ \E r1 \in 0..NRows, c1 \in 0..NCols, r2 \in WriteIdx(NRows), c2 \in WriteIdx(NCols) :
           Step([NoCall EXCEPT !.op = "region", !.pos = <<r1, c1, r2, c2>>],
                region(M, <<r1, c1>>, <<r2, c2>>))

Cut ==
    /\ pc = "idle"
    /\ \E r1 \in 0..NRows, c1 \in 0..NCols, r2 \in WriteIdx(NRows), c2 \in WriteIdx(NCols) :
           Step([NoCall EXCEPT !.op = "cut", !.pos = <<r1, c1, r2, c2>>],
                cut(M, <<r1, c1>>, <<r2, c2>>))

\* data = cut(topleft, bottomright) followed by paste(topleft, rows=data)
PasteBack ==
    /\ pc = "done"
    /\ err = "none"
    /\ call.op = "cut"
    /\ StepBack([call EXCEPT !.op = "paste_back", !.rows = ret],
                paste(M, <<call.pos[1], call.pos[2]>>, ret, <<>>))

PasteRows ==
    /\ pc = "idle"
    /\ \E row \in WriteIdx(NRows), column \in WriteIdx(NCols), rows \in Grids :
           Step([NoCall EXCEPT !.op = "paste", !.pos = <<row, column>>, !.rows = rows],
                paste(M, <<row, column>>, rows, <<>>))

PasteColumns ==
    /\ pc = "idle"
    /\ \E row \in WriteIdx(NRows), column \in WriteIdx(NCols), columns \in Grids :
           Step([NoCall EXCEPT !.op = "paste", !.pos = <<row, column>>,
                               !.columns = columns],
                paste(M, <<row, column>>, <<>>, columns))

PasteBoth ==
    /\ pc = "idle"
    /\ \E row \in WriteIdx(NRows), column \in WriteIdx(NCols),
          rows \in SmallGrids, columns \in SmallGrids :
           Step([NoCall EXCEPT !.op = "paste", !.pos = <<row, column>>, !.rows = rows,
                               !.columns = columns],
                paste(M, <<row, column>>, rows, columns))

PasteNeither ==
    /\ pc = "idle"
    /\ \E row \in WriteIdx(NRows), column \in WriteIdx(NCols) :
           Step([NoCall EXCEPT !.op = "paste", !.pos = <<row, column>>],
                paste(M, <<row, column>>, <<>>, <<>>))

Transpose ==
    /\ pc = "idle"
    /\ Step([NoCall EXCEPT !.op = "transpose"], matrix_transpose(M))

\* transpose() called a second time
TransposeBack ==
    /\ pc = "done"
    /\ err = "none"
    /\ call.op = "transpose"
    /\ StepBack([call EXCEPT !.op = "transpose_back"], matrix_transpose(M))

Filter ==
    /\ pc = "idle"
    /\ \E column_indices \in {NotGiven} \cup {Given(l) : l \in ShortIndexLists(NCols)},
          row_indices \in {NotGiven} \cup {Given(l) : l \in ShortIndexLists(NRows)} :
           Step([NoCall EXCEPT !.op = "filter", !.column_indices = column_indices,
                               !.row_indices = row_indices],
                filter(M, column_indices, row_indices))

Map ==
    /\ pc = "idle"
    /\ \E custom_function \in Functions :
           Step([NoCall EXCEPT !.op = "map", !.fn = custom_function],
                map(M, custom_function))

Format ==
    /\ pc = "idle"
    /\ \E formatter \in Functions :
           Step([NoCall EXCEPT !.op = "format", !.fn = formatter], format(M, formatter))

Enumerate ==
    /\ pc = "idle"
    /\ Step([NoCall EXCEPT !.op = "enumerate"], enumerate(M))

Reverse ==
    /\ pc = "idle"
    /\ Step([NoCall EXCEPT !.op = "reverse"], reverse(M))

Vertical ==
    /\ pc = "idle"
    /\ Step([NoCall EXCEPT !.op = "vertical"], vertical(M))

RVertical ==
    /\ pc = "idle"
    /\ Step([NoCall EXCEPT !.op = "rvertical"], rvertical(M))

\* next(iterator): the caller takes one more cell, or finds the iterator exhausted
IterNext ==
    /\ pc = "idle"
    /\ it.kind # "none"
    /\ it.phase # "exhausted"
    /\ \E r \in {iter_next(it, array)} :
           it' = IF r.out = StopIteration
                 THEN [r.it EXCEPT !.phase = "exhausted"]
                 ELSE [r.it EXCEPT !.yielded = Append(@, r.out)]
    /\ UNCHANGED <<array, width, pc, call, old, err, ret, shared>>

\* the caller lets go of an exhausted iterator
IterDrop ==
    /\ pc = "idle"
    /\ it.phase = "exhausted"
    /\ it' = NoIter
    /\ UNCHANGED <<array, width, pc, call, old, err, ret, shared>>

ToArray ==
    /\ pc = "idle"
    /\ Step([NoCall EXCEPT !.op = "to_array"], to_array(M))

GetInternalArray ==
    /\ pc = "idle"
    /\ Step([NoCall EXCEPT !.op = "get_internal_array"], get_internal_array(M))

\* the calls that return a flat list, and those that return a list of rows
ReturnsRow == {"row_at", "column_at"}
ReturnsRows == {"region", "cut", "to_array", "get_internal_array"}

\* the caller assigns to one cell of the list it was handed (lst[k] = v, or
\* lst[i][k] = v); the store follows when the list is the store itself
ModifyReturned ==
    /\ pc = "done"
    /\ err = "none"
    /\ \/ /\ call.op \in ReturnsRow
          /\ \E k \in 1..Len(ret), v \in Cells \ {None} :
                 /\ v # ret[k]
                 /\ ret' = [ret EXCEPT ![k] = v]
       \/ /\ call.op \in ReturnsRows
          /\ \E i \in 1..Len(ret) : \E k \in 1..Len(ret[i]), v \in Cells \ {None} :
                 /\ v # ret[i][k]
                 /\ ret' = [ret EXCEPT ![i][k] = v]
    /\ array' = IF shared THEN ret' ELSE array
    /\ pc' = "changed"
    /\ UNCHANGED <<width, call, old, err, shared, it>>

RemovedFeature ==
    /\ pc = "idle"
    /\ \E name \in RemovedFeatures :
           Step([NoCall EXCEPT !.op = name], removed_feature(M, name))

Next ==
    \/ Return
    \/ CellValueGet
    \/ CellValueSet
    \/ RowAt
    \/ ColumnAt
    \/ SetRowAt
    \/ SetColumnAt
    \/ ExtendRows
    \/ ExtendColumns
    \/ ExtendColumnsWithRows
    \/ DeleteRows
    \/ DeleteColumns
    \/ Region
    \/ Cut
    \/ PasteBack
    \/ PasteRows
    \/ PasteColumns
    \/ PasteBoth
    \/ PasteNeither
    \/ Transpose
    \/ TransposeBack
    \/ Filter
    \/ Map
    \/ Enumerate
    \/ Reverse
    \/ Vertical
    \/ RVertical
    \/ RemovedFeature
    \/ ToArray
    \/ GetInternalArray
    \/ ModifyReturned
    \/ SetItem
    \/ Format
    \/ IterNext
    \/ IterDrop

Spec == Init /\ [][Next]_vars

(***************************************************************************)
(* Properties.  In a state with pc = "done", call is the call that has     *)
(* just returned or raised, old is the matrix it was made on, and array,   *)
(* width are the matrix it left behind.                                    *)
(***************************************************************************)
Old_R == number_of_rows(old)
Old_C == number_of_columns(old)
New_R == number_of_rows(M)
New_C == number_of_columns(M)
NoNull(grid) == \A k \in 1..Len(grid) : \A i \in 1..Len(grid[k]) : grid[k][i] # None
Unchanged == array = old.array /\ width = old.width

C2_SetOutOfBoundsGrows ==
    (/\ pc = "done"
     /\ call.op = "cell_value"
     /\ call.value # None
     /\ (call.pos[1] >= Old_R \/ call.pos[2] >= Old_C))
    => (/\ err = "none"
        /\ call.pos[1] \in row_range(M)
        /\ call.pos[2] \in column_range(M)
        /\ array[call.pos[1] + 1][call.pos[2] + 1] = call.value)

\* C3: a read addressed outside row_range()/column_range() (cell_value without
\* a new value, row_at, column_at) raises the out-of-bounds error and leaves the
\* store and the dimensions as they were.
C3_ReadOutOfRangeFails ==
    pc = "done" =>
        /\ (/\ call.op = "cell_value"
            /\ call.value = None
            /\ ~(call.pos[1] \in 0..(Old_R - 1) /\ call.pos[2] \in 0..(Old_C - 1)))
           => (err = "IndexError" /\ Unchanged)
        /\ (call.op = "row_at" /\ call.pos[1] \notin 0..(Old_R - 1))
           => (err = "IndexError" /\ Unchanged)
        /\ (call.op = "column_at" /\ call.pos[1] \notin 0..(Old_C - 1))
           => (err = "IndexError" /\ Unchanged)

\* C3 witness: column_at was called on a non-empty matrix with an index past its
\* last column, and raised.
C3_Witness ==
    /\ pc = "done"
    /\ call.op = "column_at"
    /\ Old_R > 0
    /\ Old_C > 0
    /\ call.pos[1] >= Old_C
    /\ err = "IndexError"

\* C4: cut/paste identity.  For a region with 0 <= r1 < r2 <= number_of_rows()
\* and 0 <= c1 < c2 <= number_of_columns(), data = cut((r1,c1),(r2,c2)) followed
\* by paste((r1,c1), rows=data) leaves the matrix with its original dimensions
\* and its original value in every cell.
C4_CutPasteIdentity ==
    (/\ pc = "done"
     /\ call.op = "paste_back"
     /\ 0 <= call.pos[1] /\ call.pos[1] < call.pos[3] /\ call.pos[3] <= Old_R
     /\ 0 <= call.pos[2] /\ call.pos[2] < call.pos[4] /\ call.pos[4] <= Old_C)
    => (/\ err = "none"
        /\ New_R = Old_R
        /\ New_C = Old_C
        /\ array = old.array)

\* the cell paste((r, c), rows=rows) is to leave at (i, j), by the growth policy
RowPasteCell(i, j) ==
    LET r == call.pos[1]
        c == call.pos[2]
        rows == call.rows
    IN IF i - r \in 0..(Len(rows) - 1) /\ j - c \in 0..(Len(rows[i - r + 1]) - 1)
       THEN rows[i - r + 1][j - c + 1]
       ELSE IF i < Old_R /\ j < Old_C THEN old.array[i + 1][j + 1]
       ELSE Blank

\* C5: row-mode paste growth policy.  On an R x C matrix, paste((r,c), rows=rows)
\* with k >= 1 rows of non-null values, the longest of w cells, and r >= R or
\* c < C, yields max(R, r+k) rows and max(C, c+w) columns; cell (r+i, c+j) is
\* rows[i][j] for every supplied cell, every other cell that existed keeps its
\* value, and every other new cell is the empty string.
C5_RowPasteGrowth ==
    (/\ pc = "done"
     /\ call.op = "paste"
     /\ Truthy(call.rows)
     /\ ~Truthy(call.columns)
     /\ NoNull(call.rows)
     /\ (call.pos[1] >= Old_R \/ call.pos[2] < Old_C))
    => (/\ err = "none"
        /\ New_R = Max2(Old_R, call.pos[1] + Len(call.rows))
        /\ New_C = Max2(Old_C, call.pos[2] + longest_row_number(call.rows))
        /\ \A i \in 0..(New_R - 1) : \A j \in 0..(Len(array[i + 1]) - 1) :
               array[i + 1][j + 1] = RowPasteCell(i, j))

\* C6: column-mode paste mirrors row-mode paste.  Whenever paste((r,c),
\* columns=cols) with non-null values completes without error, cell (r+i, c+j)
\* of the result is cols[j][i] for every supplied cell, also when c is greater
\* than the number of columns.
C6_ColumnPasteMirror ==
    (/\ pc = "done"
     /\ call.op = "paste"
     /\ ~Truthy(call.rows)
     /\ Truthy(call.columns)
     /\ NoNull(call.columns)
     /\ err = "none")
    => \A j \in 1..Len(call.columns) : \A i \in 1..Len(call.columns[j]) :
           /\ call.pos[1] + i - 1 \in row_range(M)
           /\ call.pos[2] + j - 1 \in column_range(M)
           /\ array[call.pos[1] + i][call.pos[2] + j] = call.columns[j][i]

C8_TransposeRoundTrip ==
    (pc = "done" /\ call.op = "transpose_back")
    => (/\ New_R = Old_R
        /\ New_C = Old_C
        /\ array = old.array)

\* the rows of a whose 0-based index is not in S, in their order
RowsNotIn(a, S) ==
    LET kept == {i \in 1..Len(a) : (i - 1) \notin S}
        nth(k) == CHOOSE i \in kept : Cardinality({x \in kept : x < i}) = k - 1
    IN [k \in 1..Cardinality(kept) |-> a[nth(k)]]

\* C9: delete_rows depends only on the set of indices.  For every list of
\* non-negative integers (any order, any duplicates, any entries past the last
\* row), delete_rows(list) leaves exactly the rows whose original index is not
\* in the list, in their original order, with unchanged content.
C9_DeleteRowsBySet ==
    (pc = "done" /\ call.op = "delete_rows" /\ call.is_list)
    => (/\ err = "none"
        /\ array = RowsNotIn(old.array,
                             {call.indices[k] : k \in 1..Len(call.indices)}))

\* C9 witness: delete_rows was given a list with a duplicate and with an index
\* past the last row, removed a row and left a row.
C9_Witness ==
    /\ pc = "done"
    /\ call.op = "delete_rows"
    /\ call.is_list
    /\ \E k, n \in 1..Len(call.indices) : k # n /\ call.indices[k] = call.indices[n]
    /\ \E k \in 1..Len(call.indices) : call.indices[k] >= Old_R
    /\ New_R < Old_R
    /\ New_R > 0

\* C10: iteration orders.  A call of enumerate(), reverse(), vertical() or
\* rvertical() starts a fresh traversal, and a traversal of an R x C matrix,
\* taken to its end while the matrix stays as it is, yields the R*C cells:
\* enumerate() with cell (i,j) at position i*C+j, vertical() with cell (i,j) at
\* position j*R+i, reverse() the reversal of enumerate() and rvertical() the
\* reversal of vertical().
C10_IterationOrders ==
    /\ (pc = "done" /\ call.op \in ReturnsIterator)
       => (err = "none" /\ Unchanged /\ it.kind = call.op /\ it.yielded = <<>>)
    /\ (it.phase = "exhausted" /\ ~it.touched)
       => /\ Len(it.yielded) = New_R * New_C
          /\ it.kind = "enumerate"
             => \A i \in 0..(New_R - 1), j \in 0..(New_C - 1) :
                    it.yielded[i * New_C + j + 1] = array[i + 1][j + 1]
          /\ it.kind = "vertical"
             => \A i \in 0..(New_R - 1), j \in 0..(New_C - 1) :
                    it.yielded[j * New_R + i + 1] = array[i + 1][j + 1]
          /\ it.kind = "reverse"
             => \A i \in 0..(New_R - 1), j \in 0..(New_C - 1) :
                    it.yielded[New_R * New_C - (i * New_C + j)] = array[i + 1][j + 1]
          /\ it.kind = "rvertical"
             => \A i \in 0..(New_R - 1), j \in 0..(New_C - 1) :
                    it.yielded[New_R * New_C - (j * New_R + i)] = array[i + 1][j + 1]

\* C10 witness: the iterator of vertical() is exhausted on an unchanged matrix of
\* two rows and two columns whose column-major order differs from its row-major
\* order.
C10_Witness ==
    /\ it.kind = "vertical"
    /\ it.phase = "exhausted"
    /\ ~it.touched
    /\ Len(it.yielded) = 4
    /\ New_R = 2
    /\ New_C = 2
    /\ array[1][2] # array[2][1]

\* C11: map writes the function result back to every cell.  For every function f
\* (f may return any value, None included), map(f) returns normally, leaves the
\* dimensions unchanged and leaves in every cell (i, j) the value f gives for the
\* value the cell held before the call.
C11_MapWritesResult ==
    (pc = "done" /\ call.op = "map")
    => (/\ err = "none"
        /\ New_R = Old_R
        /\ New_C = Old_C
        /\ \A i \in 1..Len(array) : \A j \in 1..Len(array[i]) :
               array[i][j] = call.fn[old.array[i][j]])

\* C12: wrong-kind arguments.  Each of delete_rows, delete_columns, extend_rows
\* and extend_columns, called with an argument that is not a list, fails with the
\* type-mismatch error (TypeError) and leaves the store and the dimensions
\* unchanged.
C12_WrongKindIsTypeError ==
    (/\ pc = "done"
     /\ call.op \in {"delete_rows", "delete_columns", "extend_rows", "extend_columns"}
     /\ ~call.is_list)
    => (err = "TypeError" /\ Unchanged)

\* C13: removed-feature entry points always fail.  In every reachable state each
\* of add_filter, remove_filter, clear_filters, validate_filters, freeze_filters,
\* apply_formatter, add_formatter, remove_formatter, clear_formatters and
\* freeze_formatters raises NotImplementedError and leaves the matrix unchanged.
C13_RemovedFeaturesFail ==
    (pc = "done" /\ call.op \in RemovedFeatures)
    => (err = "NotImplementedError" /\ Unchanged)

\* C13 witness: add_filter was called on a non-empty matrix and raised
\* NotImplementedError.
C13_Witness ==
    /\ pc = "done"
    /\ call.op = "add_filter"
    /\ Old_R > 0
    /\ Old_C > 0
    /\ err = "NotImplementedError"

\* C14: uniform, applied by the constructor to any jagged input (null cells
\* included), returns as width the longest row length, 0 for the empty array,
\* and an array with as many rows as the input, in which row i is input row i
\* with each null replaced by the empty string, followed by exactly
\* width - len(row i) empty strings.
C14_UniformNormalizes ==
    (pc = "done" /\ call.op = "__init__")
    => LET input == call.rows
       IN /\ err = "none"
          /\ \A i \in 1..Len(input) : width >= Len(input[i])
          /\ (Len(input) = 0 => width = 0)
          /\ (Len(input) > 0 => \E i \in 1..Len(input) : width = Len(input[i]))
          /\ Len(array) = Len(input)
          /\ \A i \in 1..Len(input) :
                 /\ Len(array[i]) = width
                 /\ \A k \in 1..width :
                        array[i][k] =
                            IF k > Len(input[i]) THEN Blank
                            ELSE IF input[i][k] = None THEN Blank
                            ELSE input[i][k]

C14_Witness ==
    /\ pc = "done" /\ call.op = "__init__"
    /\ Len(call.rows) = 2
    /\ Len(call.rows[1]) = 2 /\ Len(call.rows[2]) = 0
    /\ call.rows[1][1] = None /\ call.rows[1][2] = "a"
    /\ array = <<<<Blank, "a">>, <<Blank, Blank>>>> /\ width = 2

\* C15: set_row_at is strict and never adds a row, here for data that holds no
\* null cell.  With an index not below the
\* number of rows it fails with the out-of-bounds error and leaves the matrix
\* unchanged.  With an index below the number of rows it leaves the number of
\* rows unchanged, makes the addressed row equal to the data right-padded with
\* the sentinel to the new width, and leaves every other row as it was apart
\* from right-padding to the new width.
C15_SetRowAtStrict ==
    (pc = "done" /\ call.op = "set_row_at" /\ NoNull(<<call.data>>))
    => LET index == call.pos[1]
           data == call.data
       IN IF index >= Old_R
          THEN err = "IndexError" /\ Unchanged
          ELSE /\ err = "none"
               /\ New_R = Old_R
               /\ \A i \in 1..New_R :
                      /\ Len(array[i]) = New_C
                      /\ array[i] =
                             IF i = index + 1
                             THEN data \o Rep(Blank, New_C - Len(data))
                             ELSE old.array[i] \o Rep(Blank, New_C - Len(old.array[i]))

\* C16: copy discipline.  The lists returned by row_at, column_at, region and
\* cut are independent of the store: when the caller modifies a cell of such a
\* list, no cell of the matrix changes.  to_array and get_internal_array
\* return the live store: when the caller modifies a cell of a row obtained
\* from them, the matrix changes and reads the new value from then on.
C16_CopyDiscipline ==
    [][(pc = "done" /\ pc' = "changed")
       => /\ call.op \in {"row_at", "column_at", "region", "cut"}
             => (array' = array /\ width' = width /\ ret' # ret)
          /\ call.op \in {"to_array", "get_internal_array"}
             => (array' # array /\ array' = ret' /\ width' = width)]_vars

C16_Witness ==
    /\ pc = "changed"
    /\ call.op = "row_at"
    /\ call.pos[1] = 0
    /\ ret # array[1]
    /\ array = old.array

\* C17: right-edge merge.  For an R x C matrix and a list of n rows of non-null
\* values whose longest row has w cells, extend_columns_with_rows yields max(R, n) rows and
\* C + w columns; row i is the old row i followed by rows[i] for i < min(R, n),
\* the old row i followed by w blanks for n <= i < R, and C blanks followed by
\* rows[i] for R <= i < n; every row is right-padded with the sentinel to the
\* new width.
C17_RightEdgeMerge ==
    (pc = "done" /\ call.op = "extend_columns_with_rows" /\ NoNull(call.rows))
    => LET rows == call.rows
           n == Len(rows)
           w == longest_row_number(rows)
           body(i) == IF i <= Min2(Old_R, n) THEN old.array[i] \o rows[i]
                      ELSE IF i <= Old_R THEN old.array[i] \o Rep(Blank, w)
                      ELSE Rep(Blank, Old_C) \o rows[i]
       IN /\ err = "none"
          /\ New_R = Max2(Old_R, n)
          /\ New_C = Old_C + w
          /\ \A i \in 1..New_R :
                 array[i] = body(i) \o Rep(Blank, New_C - Len(body(i)))

\* C18: no null cell in the store.  In every state reachable from construction
\* by any sequence of the public structural operations, whose arguments may
\* contain null cells, no cell of the store is the null marker.
C18_NoNullInStore == NoNull(array)

====
